---- MODULE Spec2Model ----
(***************************************************************************)
(* Model of the connection supervisor of mdigger/rabbitmq: Connect, the    *)
(* two revisions of Run (sequential and errgroup fan-out), Init with its   *)
(* one-shot latch, the reconnect-safe Publish and Consume adapters.        *)
(***************************************************************************)
EXTENDS Integers, Sequences, FiniteSets

\* Number of connection generations one behaviour may go through.
MaxGen == 2

\* connect.go: MaxIteration, the number of dial attempts of one Connect call.
\* It is a package variable the caller may set (5 unless set); the model runs
\* with this value.
MaxIteration == 2

\* Init with the sentinel put before the initializers of the caller.
WorkersSentinelFirst == <<"stopWorker", "consumer", "publisher">>

\* The initializers Work registers, followed by the sentinel Init appends.
Workers == <<"consumer", "publisher", "stopWorker">>

NWorkers == Len(Workers)

Gens == 1..MaxGen

VARIABLES
    rev,        \* the revision of Run and Init that runs: "seq" or "grp"
    ctxDone,    \* the outer context is cancelled or expired
    gen,        \* number of Connect calls Run has begun (the generation)
    dialI,      \* Connect: the loop counter i
    conn,       \* per generation: "none", "open", "dead" (lost), "closed" (by Run)
    runPc,      \* position of Run
    idx,        \* Run: index of the initializer the loop is at
    err,        \* Run: its local err
    runRes,     \* value Run returned: "none" while running
    inv,        \* per initializer, its task in the current generation
    okOnce,     \* the registered initializers that have returned nil at least once (history)
    errGen,     \* generation in which a registered initializer first returned an error, 0 if none (history)
    watcher,    \* errgroup revision: the connection watcher task
    grpCancel,  \* errgroup revision: groupCtx cancelled by the group itself
    once,       \* Init: sync.Once has run
    stop,       \* Init: number of close(stop) executed
    latchBy,    \* who closed stop: "none", "sentinel" or "run" (history)
    initErr,    \* Init: the shared err variable
    initPc,     \* Init: "waiting" on <-stop or "returned"
    initRes,    \* value Init returned
    ctxAtRet,   \* the outer context was already cancelled when Init returned (history)
    storedPublishingFunc, \* Publish: the slot; 0 is empty, g the closure of generation g
    loop,       \* per generation, the delivery loop of the consumer
    subClosed,  \* the broker closed the consumer's sub-channel of the current generation
    byNotify,   \* the previous generation ended with the close notification (history)
    cwGen,      \* generation in whose wait the context was cancelled, 0 if none (history)
    pub,        \* the last call of the publish function (history)
    q,          \* a Queue: its fields Name and queue
    asked,      \* the names passed to QueueDeclare, one per declaration (history)
    replied,    \* the names the broker returned, "" for a failed declaration (history)
    cMax,       \* the value the package variable MaxIteration is set to
    cPc,        \* Connect: "idle" between calls, "loop" inside one
    cI,         \* Connect: the loop counter i
    cConn,      \* Connect: the result conn, 0 is nil, k the connection of dial k
    cErr,       \* Connect: the result err
    dialed,     \* the outcomes of the dials of the current call, in order (history)
    returned,   \* what each call of Connect returned, in order (history)
    opts,       \* Publish: the publishOptions
    msg,        \* the message the caller passes to the publish function
    fwd,        \* the message passed on to the stored closure
    fwdDone,    \* the publish call has passed a message on
    chGen,      \* sub-channels: the generation
    chIdx,      \* sub-channels: index of the initializer the loop of Run is at
    chTask,     \* sub-channels: per initializer "no", "chan" (has its channel), "done"
    chLocal,    \* sub-channels: per initializer the variable ch, 0 is none
    chAlloc,    \* sub-channels: number of Channel objects created so far
    chPassed,   \* sub-channels: the invocations made, with the channel passed (history)
    strm,       \* the deliveries waiting in the delivery stream
    strmClosed, \* the delivery stream is closed
    delivered,  \* every delivery put on the stream, in order (history)
    handled,    \* the deliveries the handler was invoked with, in order (history)
    dlPc,       \* the delivery loop: "range", "handler" or "exit"
    dlMsg,      \* the delivery loop: the variable msg
    srCh,       \* SendReceive: the field ch, 0 is nil, k the channel of invocation k of Run
    srQueue,    \* SendReceive: the field queue, 0 is "", k the name invocation k declared
    srMu,       \* SendReceive: the RWMutex: "free", "w" or "r"
    srRunPc,    \* SendReceive.Run: its position
    srRunK,     \* SendReceive.Run: number of the invocation
    srSendPc,   \* SendReceive.Send: its position
    srReplyTo,  \* SendReceive.Send: msg.ReplyTo, -1 is a name the caller set
    srOut       \* SendReceive.Send: the last outcome (history)

supVars == <<rev, ctxDone, gen, dialI, conn, runPc, idx, err, runRes, inv, okOnce, errGen, watcher,
             grpCancel, once, stop, latchBy, initErr, initPc, initRes, ctxAtRet,
             storedPublishingFunc, loop, subClosed, byNotify, cwGen, pub>>

queueVars == <<q, asked, replied>>
connectVars == <<cMax, cPc, cI, cConn, cErr, dialed, returned>>
msgVars == <<opts, msg, fwd, fwdDone>>
chanVars == <<chGen, chIdx, chTask, chLocal, chAlloc, chPassed>>
streamVars == <<strm, strmClosed, delivered, handled, dlPc, dlMsg>>
srVars == <<srCh, srQueue, srMu, srRunPc, srRunK, srSendPc, srReplyTo, srOut>>

\* The parts that are followed on their own, apart from the supervisor.
subVars == <<queueVars, connectVars, msgVars, chanVars, streamVars, srVars>>

vars == <<supVars, subVars>>

runVars == <<rev, gen, dialI, runPc, idx, err, runRes>>
latchVars == <<once, stop, latchBy>>
initVars == <<initErr, initPc, initRes, ctxAtRet>>
grpVars == <<watcher, grpCancel>>
invHist == <<okOnce, errGen>>
histVars == <<okOnce, errGen, byNotify, cwGen, pub>>

NoPub == [res |-> "none", ch |-> 0, stale |-> FALSE, afterInit |-> FALSE]

\* queue.go, NewQueue: the description of a queue with the given name.
NewQueue(name) == [Name |-> name, queue |-> ""]

\* The supervisor before Run has taken a step.
InitRun ==
    /\ ctxDone = FALSE
    /\ gen = 0
    /\ dialI = 0
    /\ conn = [g \in Gens |-> "none"]
    /\ runPc = "loop"
    /\ idx = 0
    /\ err = "nil"
    /\ runRes = "none"
    /\ inv = [i \in 1..NWorkers |-> "no"]
    /\ okOnce = {}
    /\ errGen = 0
    /\ watcher = "idle"
    /\ grpCancel = FALSE
    /\ once = FALSE
    /\ stop = 0
    /\ latchBy = "none"
    /\ initErr = "nil"
    /\ initPc = "waiting"
    /\ initRes = "none"
    /\ ctxAtRet = FALSE
    /\ storedPublishingFunc = 0
    /\ loop = [g \in Gens |-> "none"]
    /\ subClosed = FALSE
    /\ byNotify = FALSE
    /\ cwGen = 0
    /\ pub = NoPub

\* A message with every field at its zero value.
ZeroMsg == [ReplyTo |-> "", Timestamp |-> 0, Expiration |-> "", AppId |-> ""]

\* publishOptions with no option applied (getPublishOpts of no options).
NoOpts == [timestamp |-> FALSE, appID |-> "", hasReplyQueue |-> FALSE,
           replyToQueue |-> NewQueue(""), replyTo |-> "", ttl |-> 0]

\* No call of SendReceive.Send has ended yet.
NoSend == [res |-> "none", ch |-> 0, replyTo |-> 0]

\* Each part that is followed on its own, before it has taken a step.
QueueIdle == q = NewQueue("") /\ asked = <<>> /\ replied = <<>>

ConnectIdle ==
    /\ cMax = MaxIteration
    /\ cPc = "idle" /\ cI = 0 /\ cConn = 0 /\ cErr = "nil"
    /\ dialed = <<>> /\ returned = <<>>

MsgIdle == opts = NoOpts /\ msg = ZeroMsg /\ fwd = ZeroMsg /\ fwdDone = FALSE

ChanIdle ==
    /\ chGen = 0 /\ chIdx = 0 /\ chAlloc = 0 /\ chPassed = {}
    /\ chTask = [i \in 1..NWorkers |-> "no"]
    /\ chLocal = [i \in 1..NWorkers |-> 0]

StreamIdle ==
    /\ strm = <<>> /\ strmClosed = FALSE /\ delivered = <<>> /\ handled = <<>>
    /\ dlPc = "range" /\ dlMsg = ""

SrIdle ==
    /\ srCh = 0 /\ srQueue = 0 /\ srMu = "free" /\ srRunPc = "idle" /\ srRunK = 0
    /\ srSendPc = "idle" /\ srReplyTo = 0 /\ srOut = NoSend

\* The state at the call of Init; the other parts are followed on their own
\* below.
InitCommon ==
    /\ InitRun
    /\ QueueIdle
    /\ ConnectIdle
    /\ MsgIdle
    /\ ChanIdle
    /\ StreamIdle
    /\ SrIdle

----------------------------------------------------------------------------
\* Connect (connect.go)

\* Run calls Connect: a new generation begins.
RunConnect ==
    /\ runPc = "loop"
    /\ gen < MaxGen
    /\ gen' = gen + 1
    /\ dialI' = 0
    /\ runPc' = "dial"
    /\ inv' = [i \in 1..NWorkers |-> "no"]
    /\ watcher' = "idle"
    /\ grpCancel' = FALSE
    /\ subClosed' = FALSE
    /\ byNotify' = (err = "closeErr")
    /\ UNCHANGED <<subVars, rev, ctxDone, conn, idx, err, runRes, latchVars, initVars,
                   storedPublishingFunc, loop, invHist, cwGen, pub>>

\* One iteration of Connect's loop whose Dial fails: sleep and try again.
DialFail ==
    /\ runPc = "dial"
    /\ dialI < MaxIteration
    /\ dialI' = dialI + 1
    /\ UNCHANGED <<subVars, rev, ctxDone, gen, conn, runPc, idx, err, runRes, inv, grpVars,
                   latchVars, initVars, storedPublishingFunc, loop, subClosed,
                   histVars>>

\* All attempts are used up: Connect returns (nil, err) and Run returns err.
ConnectFail ==
    /\ runPc = "dial"
    /\ dialI >= MaxIteration
    /\ runPc' = "ret"
    /\ runRes' = "connErr"
    /\ UNCHANGED <<subVars, rev, ctxDone, gen, dialI, conn, idx, err, inv, grpVars,
                   latchVars, initVars, storedPublishingFunc, loop, subClosed,
                   histVars>>

\* The first successful Dial: Connect returns the connection at once.
\* Sequential Run goes on to its loop over the initializers.
DialOkSeq ==
    /\ rev = "seq"
    /\ runPc = "dial"
    /\ dialI < MaxIteration
    /\ conn' = [conn EXCEPT ![gen] = "open"]
    /\ runPc' = "init"
    /\ idx' = 1
    /\ err' = "nil"
    /\ UNCHANGED <<subVars, rev, ctxDone, gen, dialI, runRes, inv, grpVars, latchVars,
                   initVars, storedPublishingFunc, loop, subClosed, histVars>>

----------------------------------------------------------------------------
\* The initializers

\* OnceDo without the sync.Once: every call closes stop.
OnceDoNoGuard(who) ==
    /\ once' = TRUE
    /\ stop' = stop + 1
    /\ latchBy' = who

\* once.Do(end): close(stop) runs the first time only.
OnceDo(who) ==
    /\ once' = TRUE
    /\ stop' = IF once THEN stop ELSE stop + 1
    /\ latchBy' = IF once THEN latchBy ELSE who

\* ConsumeInitializer that starts the delivery loop before it looks at the
\* errors.
ConsumeInitializerLoopFirst(res) ==
    /\ res = "nil" => conn[gen] = "open"
    /\ loop' = [loop EXCEPT ![gen] = "running"]
    /\ UNCHANGED <<storedPublishingFunc, latchVars>>

\* The initializer Consume returns: declare the queue, open the delivery
\* stream, start the delivery loop in its own goroutine, return nil; or return
\* the error of the declaration or of the opening. Neither succeeds on a
\* connection that is lost.
ConsumeInitializer(res) ==
    /\ res = "nil" => conn[gen] = "open"
    /\ loop' = IF res = "nil" THEN [loop EXCEPT ![gen] = "running"] ELSE loop
    /\ UNCHANGED <<storedPublishingFunc, latchVars>>

\* PublishInitializer that keeps the first closure it stored.
PublishInitializerStoreOnce(res) ==
    /\ storedPublishingFunc' = IF res = "nil" /\ storedPublishingFunc = 0
                               THEN gen ELSE storedPublishingFunc
    /\ UNCHANGED <<loop, latchVars>>

\* PublishInitializer that stores the closure before it runs the hook.
PublishInitializerStoreFirst(res) ==
    /\ storedPublishingFunc' = gen
    /\ UNCHANGED <<loop, latchVars>>

\* The initializer Publish returns: the WithInit hook may fail; otherwise the
\* closure over the channel of this generation is stored in the slot.
PublishInitializer(res) ==
    /\ storedPublishingFunc' = IF res = "nil" THEN gen ELSE storedPublishingFunc
    /\ UNCHANGED <<loop, latchVars>>

\* Init's sentinel in the sequential revision: return ch.Close(), with
\* once.Do(end) deferred.
StopWorkerSeq(res) ==
    /\ OnceDo("sentinel")
    /\ UNCHANGED <<storedPublishingFunc, loop>>

\* Init's sentinel in the errgroup revision: once.Do(end); return nil.
StopWorkerGrp(res) ==
    /\ res = "nil"
    /\ OnceDo("sentinel")
    /\ UNCHANGED <<storedPublishingFunc, loop>>

Results == {"nil", "err"}

Status(res) == IF res = "nil" THEN "ok" ELSE "err"

\* The initializers the caller registered: all but Init's sentinel.
Registered == {i \in 1..NWorkers : Workers[i] # "stopWorker"}

\* History of the results of the registered initializers.
Record(i, res) ==
    /\ okOnce' = IF res = "nil" /\ i \in Registered THEN okOnce \cup {i} ELSE okOnce
    /\ errGen' = IF res = "err" /\ i \in Registered /\ errGen = 0 THEN gen ELSE errGen

----------------------------------------------------------------------------
\* Run, sequential revision

\* SeqChannel that returns the error of conn.Channel() from Run, as run.go
\* does.
SeqChannelReturnsError ==
    /\ runPc = "init"
    /\ inv[idx] = "no"
    /\ \E ok \in BOOLEAN :
        /\ ok => conn[gen] = "open"
        /\ IF ok
           THEN /\ inv' = [inv EXCEPT ![idx] = "chan"]
                /\ UNCHANGED <<runPc, err, runRes, conn>>
           ELSE /\ err' = "chErr"
                /\ conn' = [conn EXCEPT ![gen] = "closed"]
                /\ runPc' = "ret"
                /\ runRes' = "chErr"
                /\ UNCHANGED inv
    /\ UNCHANGED <<subVars, rev, ctxDone, gen, dialI, idx, grpVars, latchVars,
                   initVars, storedPublishingFunc, loop, subClosed, histVars>>

\* ch, err = conn.Channel(); a failure leaves the loop.
SeqChannel ==
    /\ runPc = "init"
    /\ inv[idx] = "no"
    /\ \E ok \in BOOLEAN :
        /\ ok => conn[gen] = "open"
        /\ IF ok
           THEN /\ inv' = [inv EXCEPT ![idx] = "chan"]
                /\ UNCHANGED <<runPc, err>>
           ELSE /\ err' = "chErr"
                /\ runPc' = "close"
                /\ UNCHANGED inv
    /\ UNCHANGED <<subVars, rev, ctxDone, gen, dialI, conn, idx, runRes, grpVars, latchVars,
                   initVars, storedPublishingFunc, loop, subClosed, histVars>>

\* SeqInvoke whose loop goes on to the next initializer after an error.
SeqInvokeContinues ==
    /\ rev = "seq"
    /\ runPc = "init"
    /\ inv[idx] = "chan"
    /\ \E res \in Results :
        /\ CASE Workers[idx] = "consumer" -> ConsumeInitializer(res)
             [] Workers[idx] = "publisher" -> PublishInitializer(res)
             [] Workers[idx] = "stopWorker" -> StopWorkerSeq(res)
        /\ inv' = [inv EXCEPT ![idx] = Status(res)]
        /\ Record(idx, res)
        /\ err' = IF res = "nil" THEN "nil" ELSE "initErr"
        /\ IF idx < NWorkers
           THEN idx' = idx + 1 /\ runPc' = "init"
           ELSE idx' = idx /\ runPc' = IF res = "nil" THEN "select" ELSE "close"
    /\ UNCHANGED <<subVars, rev, ctxDone, gen, dialI, conn, runRes, grpVars, initVars,
                   subClosed, byNotify, cwGen, pub>>

\* err = init(ch): on an error close the channel and leave the loop; after the
\* last initializer go to the select; with an error skip the select.
SeqInvoke ==
    /\ rev = "seq"
    /\ runPc = "init"
    /\ inv[idx] = "chan"
    /\ \E res \in Results :
        /\ CASE Workers[idx] = "consumer" -> ConsumeInitializer(res)
             [] Workers[idx] = "publisher" -> PublishInitializer(res)
             [] Workers[idx] = "stopWorker" -> StopWorkerSeq(res)
        /\ inv' = [inv EXCEPT ![idx] = Status(res)]
        /\ Record(idx, res)
        /\ IF res = "nil"
           THEN /\ err' = "nil"
                /\ IF idx < NWorkers
                   THEN idx' = idx + 1 /\ runPc' = "init"
                   ELSE idx' = idx /\ runPc' = "select"
           ELSE /\ err' = "initErr"
                /\ idx' = idx
                /\ runPc' = "close"
    /\ UNCHANGED <<subVars, rev, ctxDone, gen, dialI, conn, runRes, grpVars, initVars,
                   subClosed, byNotify, cwGen, pub>>

\* select: the close notification of the connection, or ctx.Done().
SeqSelect ==
    /\ runPc = "select"
    /\ \/ /\ conn[gen] # "open"
          /\ err' = "closeErr"
       \/ /\ ctxDone
          /\ err' = err
    /\ runPc' = "close"
    /\ UNCHANGED <<subVars, rev, ctxDone, gen, dialI, conn, idx, runRes, inv, grpVars,
                   latchVars, initVars, storedPublishingFunc, loop, subClosed,
                   invHist, byNotify, cwGen, pub>>

\* RunClose that also empties the slot of the publisher.
RunCloseEmptiesSlot ==
    /\ runPc = "close"
    /\ conn' = [conn EXCEPT ![gen] = "closed"]
    /\ runPc' = "check"
    /\ storedPublishingFunc' = 0
    /\ UNCHANGED <<subVars, rev, ctxDone, gen, dialI, idx, err, runRes, inv, grpVars,
                   latchVars, initVars, loop, subClosed, histVars>>

\* conn.Close()
RunClose ==
    /\ runPc = "close"
    /\ conn' = [conn EXCEPT ![gen] = "closed"]
    /\ runPc' = "check"
    /\ UNCHANGED <<subVars, rev, ctxDone, gen, dialI, idx, err, runRes, inv, grpVars,
                   latchVars, initVars, storedPublishingFunc, loop, subClosed,
                   histVars>>

\* RunCheck without the test of ctx.Err(): Run always connects again.
RunCheckNoCtx ==
    /\ runPc = "check"
    /\ runPc' = "loop"
    /\ UNCHANGED <<subVars, rev, ctxDone, gen, dialI, conn, idx, err, runRes, inv, grpVars,
                   latchVars, initVars, storedPublishingFunc, loop, subClosed,
                   histVars>>

\* RunCheck that also returns when the connection was lost.
RunCheckReturnsOnClose ==
    /\ runPc = "check"
    /\ IF ctxDone \/ err = "closeErr"
       THEN runPc' = "ret" /\ runRes' = "nil"
       ELSE runPc' = "loop" /\ runRes' = runRes
    /\ UNCHANGED <<subVars, rev, ctxDone, gen, dialI, conn, idx, err, inv, grpVars,
                   latchVars, initVars, storedPublishingFunc, loop, subClosed,
                   histVars>>

\* RunCheck that returns the error of a failed task instead of reconnecting.
RunCheckReturnsTaskError ==
    /\ runPc = "check"
    /\ IF ctxDone
       THEN runPc' = "ret" /\ runRes' = "nil"
       ELSE IF \E i \in 1..NWorkers : inv[i] = "err"
            THEN runPc' = "ret" /\ runRes' = "initErr"
            ELSE runPc' = "loop" /\ runRes' = runRes
    /\ UNCHANGED <<subVars, rev, ctxDone, gen, dialI, conn, idx, err, inv, grpVars,
                   latchVars, initVars, storedPublishingFunc, loop, subClosed,
                   histVars>>

\* if ctx.Err() != nil { return nil }; otherwise connect again.
RunCheck ==
    /\ runPc = "check"
    /\ IF ctxDone
       THEN runPc' = "ret" /\ runRes' = "nil"
       ELSE runPc' = "loop" /\ runRes' = runRes
    /\ UNCHANGED <<subVars, rev, ctxDone, gen, dialI, conn, idx, err, inv, grpVars,
                   latchVars, initVars, storedPublishingFunc, loop, subClosed,
                   histVars>>

----------------------------------------------------------------------------
\* Run, errgroup revision

\* The first successful Dial in the errgroup revision: Run makes the group and
\* starts the task that watches the connection.
DialOkGrp ==
    /\ rev = "grp"
    /\ runPc = "dial"
    /\ dialI < MaxIteration
    /\ conn' = [conn EXCEPT ![gen] = "open"]
    /\ runPc' = "spawn"
    /\ idx' = 1
    /\ err' = "nil"
    /\ watcher' = "waiting"
    /\ grpCancel' = FALSE
    /\ UNCHANGED <<subVars, rev, ctxDone, gen, dialI, runRes, inv, latchVars,
                   initVars, storedPublishingFunc, loop, subClosed, histVars>>

\* groupCtx.Err() != nil: the outer context is cancelled, a task of the group
\* returned an error, or Wait returned.
GroupCtxDone == ctxDone \/ grpCancel

\* One turn of the loop over the workers: break when groupCtx is done,
\* otherwise group.Go the worker; runtime.Gosched() only yields.
GrpSpawn ==
    /\ runPc = "spawn"
    /\ IF GroupCtxDone
       THEN /\ runPc' = "waitgrp"
            /\ UNCHANGED <<idx, inv>>
       ELSE /\ inv' = [inv EXCEPT ![idx] = "spawned"]
            /\ IF idx < NWorkers
               THEN idx' = idx + 1 /\ runPc' = "spawn"
               ELSE idx' = idx /\ runPc' = "waitgrp"
    /\ UNCHANGED <<subVars, rev, ctxDone, gen, dialI, conn, err, runRes, grpVars,
                   latchVars, initVars, storedPublishingFunc, loop, subClosed,
                   histVars>>

\* The task of worker i, from start to return: ch, err := conn.Channel(), an
\* error ending the task; then return worker(ch). An error of either cancels
\* groupCtx. No other task sees the channel between the two statements.
GrpWorker(i) ==
    /\ rev = "grp"
    /\ inv[i] = "spawned"
    /\ \/ /\ inv' = [inv EXCEPT ![i] = "err"]
          /\ grpCancel' = TRUE
          /\ UNCHANGED <<storedPublishingFunc, loop, latchVars, invHist>>
       \/ /\ conn[gen] = "open"
          /\ \E res \in Results :
              /\ CASE Workers[i] = "consumer" -> ConsumeInitializer(res)
                   [] Workers[i] = "publisher" -> PublishInitializer(res)
                   [] Workers[i] = "stopWorker" -> StopWorkerGrp(res)
              /\ inv' = [inv EXCEPT ![i] = Status(res)]
              /\ Record(i, res)
              /\ grpCancel' = (grpCancel \/ res = "err")
    /\ UNCHANGED <<subVars, ctxDone, runVars, conn, watcher, initVars, subClosed,
                   byNotify, cwGen, pub>>

\* The watcher task: the close notification of the connection (an error, which
\* cancels groupCtx) or groupCtx.Done(). The err it assigns is not read again.
GrpWatcher ==
    /\ watcher = "waiting"
    /\ \/ /\ conn[gen] # "open"
          /\ grpCancel' = TRUE
       \/ /\ GroupCtxDone
          /\ grpCancel' = grpCancel
    /\ watcher' = "ret"
    /\ UNCHANGED <<subVars, ctxDone, runVars, conn, inv, latchVars, initVars,
                   storedPublishingFunc, loop, subClosed, histVars>>

\* group.Wait(): every task of the group has returned; Wait cancels groupCtx.
GrpWait ==
    /\ runPc = "waitgrp"
    /\ watcher = "ret"
    /\ \A i \in 1..NWorkers : inv[i] \in {"no", "ok", "err"}
    /\ runPc' = "close"
    /\ grpCancel' = TRUE
    /\ UNCHANGED <<subVars, rev, ctxDone, gen, dialI, conn, idx, err, runRes, inv, watcher, latchVars, initVars, storedPublishingFunc, loop,
                   subClosed, histVars>>

----------------------------------------------------------------------------
\* Init

\* Mutant of InitGoEnd: the result of Run is assigned to a shadowing variable
\* (err := Run(...)), the shared err stays nil.
InitGoEndShadowsErr ==
    /\ runPc = "ret"
    /\ runPc' = "done"
    /\ OnceDo("run")
    /\ UNCHANGED <<subVars, rev, ctxDone, gen, dialI, conn, idx, err, runRes, inv, grpVars,
                   initVars, storedPublishingFunc, loop, subClosed, histVars>>

\* The goroutine of Init: err = Run(...), then the deferred once.Do(end).
InitGoEnd ==
    /\ runPc = "ret"
    /\ runPc' = "done"
    /\ initErr' = runRes
    /\ OnceDo("run")
    /\ UNCHANGED <<subVars, rev, ctxDone, gen, dialI, conn, idx, err, runRes, inv, grpVars,
                   initPc, initRes, ctxAtRet, storedPublishingFunc, loop,
                   subClosed, histVars>>

\* <-stop; return err
InitReturn ==
    /\ initPc = "waiting"
    /\ stop > 0
    /\ initPc' = "returned"
    /\ initRes' = initErr
    /\ ctxAtRet' = ctxDone
    /\ UNCHANGED <<subVars, ctxDone, runVars, conn, inv, grpVars, latchVars, initErr,
                   storedPublishingFunc, loop, subClosed, histVars>>

----------------------------------------------------------------------------
\* The environment: the caller, the broker, the consumer goroutines

\* Run is blocked on a live connection whose initializers all returned nil.
InWait ==
    /\ gen >= 1
    /\ conn[gen] = "open"
    /\ \/ runPc = "select"
       \/ /\ runPc = "waitgrp"
          /\ watcher = "waiting"
          /\ \A i \in 1..NWorkers : inv[i] = "ok"

\* The caller cancels the outer context, or its deadline passes.
Cancel ==
    /\ ~ctxDone
    /\ ctxDone' = TRUE
    /\ cwGen' = IF InWait THEN gen ELSE cwGen
    /\ UNCHANGED <<subVars, runVars, conn, inv, grpVars, latchVars, initVars,
                   storedPublishingFunc, loop, subClosed, invHist, byNotify, pub>>

\* The broker (or the network) closes the connection.
BrokerClose ==
    /\ gen >= 1
    /\ conn[gen] = "open"
    /\ conn' = [conn EXCEPT ![gen] = "dead"]
    /\ UNCHANGED <<subVars, ctxDone, runVars, inv, grpVars, latchVars, initVars,
                   storedPublishingFunc, loop, subClosed, histVars>>

\* The broker closes only the sub-channel of the consumer.
SubChannelClose ==
    /\ gen >= 1
    /\ conn[gen] = "open"
    /\ loop[gen] = "running"
    /\ ~subClosed
    /\ subClosed' = TRUE
    /\ UNCHANGED <<subVars, ctxDone, runVars, conn, inv, grpVars, latchVars, initVars,
                   storedPublishingFunc, loop, histVars>>

\* The delivery stream of generation g has ended.
StreamClosed(g) == conn[g] # "open" \/ (g = gen /\ subClosed)

\* for msg := range consumer ends: the goroutine of the delivery loop returns.
LoopExit(g) ==
    /\ loop[g] = "running"
    /\ StreamClosed(g)
    /\ loop' = [loop EXCEPT ![g] = "exited"]
    /\ UNCHANGED <<subVars, ctxDone, runVars, conn, inv, grpVars, latchVars, initVars,
                   storedPublishingFunc, subClosed, histVars>>

\* Publisher without the test of the loaded value: the message goes out even
\* when the slot is empty.
PublisherNoNilCheck ==
    /\ pub' = [res |-> "sent", ch |-> storedPublishingFunc,
               stale |-> storedPublishingFunc # 0 /\ conn[storedPublishingFunc] = "closed",
               afterInit |-> initPc = "returned" /\ initRes = "nil" /\ ~ctxAtRet]
    /\ pub' # pub
    /\ UNCHANGED <<subVars, ctxDone, runVars, conn, inv, grpVars, latchVars, initVars,
                   storedPublishingFunc, loop, subClosed, invHist, byNotify, cwGen>>

\* A call of the publish function: ErrNoChannel on an empty slot, otherwise
\* the message is forwarded to the stored closure.
Publisher ==
    /\ pub' = IF storedPublishingFunc = 0
              THEN [res |-> "ErrNoChannel", ch |-> 0, stale |-> FALSE,
                    afterInit |-> initPc = "returned" /\ initRes = "nil" /\ ~ctxAtRet]
              ELSE [res |-> "sent", ch |-> storedPublishingFunc,
                    stale |-> conn[storedPublishingFunc] = "closed",
                    afterInit |-> initPc = "returned" /\ initRes = "nil" /\ ~ctxAtRet]
    /\ pub' # pub
    /\ UNCHANGED <<subVars, ctxDone, runVars, conn, inv, grpVars, latchVars, initVars,
                   storedPublishingFunc, loop, subClosed, invHist, byNotify, cwGen>>

Environment ==
    \/ Cancel
    \/ BrokerClose
    \/ SubChannelClose
    \/ \E g \in Gens : LoopExit(g)
    \/ Publisher

----------------------------------------------------------------------------

InitSeq == rev = "seq" /\ InitCommon

InitGrp == rev = "grp" /\ InitCommon

NextSeq ==
    \/ RunConnect
    \/ DialFail
    \/ DialOkSeq
    \/ ConnectFail
    \/ SeqChannel
    \/ SeqInvoke
    \/ SeqSelect
    \/ RunClose
    \/ RunCheck
    \/ InitGoEnd
    \/ InitReturn
    \/ Environment

SpecSeq == InitSeq /\ [][NextSeq]_vars

NextGrp ==
    \/ RunConnect
    \/ DialFail
    \/ DialOkGrp
    \/ ConnectFail
    \/ GrpSpawn
    \/ \E i \in 1..NWorkers : GrpWorker(i)
    \/ GrpWatcher
    \/ GrpWait
    \/ RunClose
    \/ RunCheck
    \/ InitGoEnd
    \/ InitReturn
    \/ Environment

SpecGrp == InitGrp /\ [][NextGrp]_vars

Init == InitSeq \/ InitGrp

Next ==
    \/ RunConnect
    \/ DialFail
    \/ DialOkSeq
    \/ DialOkGrp
    \/ ConnectFail
    \/ SeqChannel
    \/ SeqInvoke
    \/ SeqSelect
    \/ GrpSpawn
    \/ \E i \in 1..NWorkers : GrpWorker(i)
    \/ GrpWatcher
    \/ GrpWait
    \/ RunClose
    \/ RunCheck
    \/ InitGoEnd
    \/ InitReturn
    \/ Environment

Spec == Init /\ [][Next]_vars

----------------------------------------------------------------------------
\* Fairness: the Go scheduler runs every goroutine that can take a step. The
\* environment (the caller's cancellation, the broker, publish calls) is
\* under no obligation.

RunSeqStep ==
    \/ RunConnect
    \/ DialFail
    \/ DialOkSeq
    \/ ConnectFail
    \/ SeqChannel
    \/ SeqInvoke
    \/ SeqSelect
    \/ RunClose
    \/ RunCheck

RunGrpStep ==
    \/ RunConnect
    \/ DialFail
    \/ DialOkGrp
    \/ ConnectFail
    \/ GrpSpawn
    \/ GrpWait
    \/ RunClose
    \/ RunCheck

Fairness ==
    /\ WF_vars(InitGoEnd)
    /\ WF_vars(InitReturn)
    /\ \A g \in Gens : WF_vars(LoopExit(g))

FairSeq == SpecSeq /\ WF_vars(RunSeqStep) /\ Fairness

FairGrp ==
    /\ SpecGrp
    /\ WF_vars(RunGrpStep)
    /\ WF_vars(GrpWatcher)
    /\ \A i \in 1..NWorkers : WF_vars(GrpWorker(i))
    /\ Fairness

\* Either revision, with its goroutines scheduled fairly.
FairSpec ==
    /\ Spec
    /\ WF_vars(RunSeqStep)
    /\ WF_vars(RunGrpStep)
    /\ WF_vars(GrpWatcher)
    /\ \A i \in 1..NWorkers : WF_vars(GrpWorker(i))
    /\ Fairness

----------------------------------------------------------------------------
\* The first revision of Run and Init (run.go): the errgroup Run that opens
\* the channels in its own loop, workers that may block until their delivery
\* stream ends, Init without sync.Once.

\* The first successful Dial: Run makes the group and starts the watcher.
DialOkOld ==
    /\ rev = "old"
    /\ runPc = "dial"
    /\ dialI < MaxIteration
    /\ conn' = [conn EXCEPT ![gen] = "open"]
    /\ runPc' = "workers"
    /\ idx' = 1
    /\ err' = "nil"
    /\ watcher' = "waiting"
    /\ grpCancel' = FALSE
    /\ UNCHANGED <<subVars, rev, ctxDone, gen, dialI, runRes, inv, latchVars,
                   initVars, storedPublishingFunc, loop, subClosed, histVars>>

\* One turn of the loop over the workers: ch, err := conn.Channel(); on an
\* error conn.Close() and return the error (the group is not waited for);
\* otherwise g.Go the worker.
OldChannel ==
    /\ rev = "old"
    /\ runPc = "workers"
    /\ \/ /\ conn' = [conn EXCEPT ![gen] = "closed"]
          /\ runPc' = "ret"
          /\ runRes' = "chErr"
          /\ UNCHANGED <<idx, inv>>
       \/ /\ conn[gen] = "open"
          /\ inv' = [inv EXCEPT ![idx] = "spawned"]
          /\ IF idx < NWorkers
             THEN idx' = idx + 1 /\ runPc' = "workers"
             ELSE idx' = idx /\ runPc' = "waitgrp"
          /\ UNCHANGED <<conn, runRes>>
    /\ UNCHANGED <<subVars, rev, ctxDone, gen, dialI, err, grpVars, latchVars, initVars,
                   storedPublishingFunc, loop, subClosed, histVars>>

\* close(stop) with no sync.Once: closing a closed channel panics.
CloseStop(who, pcAfter) ==
    IF stop = 0
    THEN stop' = 1 /\ latchBy' = who /\ runPc' = pcAfter
    ELSE stop' = stop /\ latchBy' = latchBy /\ runPc' = "panic"

\* The task of worker i begins. ConsumeWorkerWithHandler: q.Consume fails, or
\* the worker goes on to range over the deliveries. PublishWorker:
\* q.Publisher fails, or the closure is stored and the worker returns nil.
\* Init's sentinel: close(stop), return nil.
OldWorker(i) ==
    /\ rev = "old"
    /\ inv[i] = "spawned"
    /\ runPc # "panic"
    /\ CASE Workers[i] = "consumer" ->
              \E res \in Results :
                /\ res = "nil" => conn[gen] = "open"
                /\ inv' = [inv EXCEPT ![i] = IF res = "nil" THEN "running" ELSE "err"]
                /\ loop' = IF res = "nil" THEN [loop EXCEPT ![gen] = "running"] ELSE loop
                /\ grpCancel' = (grpCancel \/ res = "err")
                /\ errGen' = IF res = "err" /\ errGen = 0 THEN gen ELSE errGen
                /\ UNCHANGED <<storedPublishingFunc, latchVars, runPc, okOnce>>
         [] Workers[i] = "publisher" ->
              \E res \in Results :
                /\ res = "nil" => conn[gen] = "open"
                /\ PublishInitializer(res)
                /\ inv' = [inv EXCEPT ![i] = Status(res)]
                /\ grpCancel' = (grpCancel \/ res = "err")
                /\ Record(i, res)
                /\ UNCHANGED runPc
         [] Workers[i] = "stopWorker" ->
                /\ CloseStop("sentinel", runPc)
                /\ inv' = [inv EXCEPT ![i] = "ok"]
                /\ UNCHANGED <<once, storedPublishingFunc, loop, grpCancel, invHist>>
    /\ UNCHANGED <<subVars, rev, ctxDone, gen, dialI, idx, err, runRes, conn, watcher,
                   initVars, subClosed, byNotify, cwGen, pub>>

\* for msg := range msgs ends: ConsumeWorkerWithHandler returns nil, which
\* does not cancel the context of the group.
OldConsumeReturn ==
    /\ rev = "old"
    /\ \E i \in 1..NWorkers :
        /\ inv[i] = "running"
        /\ StreamClosed(gen)
        /\ inv' = [inv EXCEPT ![i] = "ok"]
        /\ okOnce' = okOnce \cup {i}
    /\ loop' = [loop EXCEPT ![gen] = "exited"]
    /\ UNCHANGED <<subVars, ctxDone, runVars, conn, grpVars, latchVars, initVars,
                   storedPublishingFunc, subClosed, errGen, byNotify, cwGen, pub>>

\* The watcher task: it returns a non-nil error on both branches, which
\* cancels the context of the group.
OldWatcher ==
    /\ rev = "old"
    /\ watcher = "waiting"
    /\ conn[gen] # "open" \/ GroupCtxDone
    /\ watcher' = "ret"
    /\ grpCancel' = TRUE
    /\ UNCHANGED <<subVars, ctxDone, runVars, conn, inv, latchVars, initVars,
                   storedPublishingFunc, loop, subClosed, histVars>>

\* A call of the publish function PublishWorker returns:
\* channelPublisher.Load().(Publisher) is a type assertion without the
\* two-value form, which panics on the nil interface an empty atomic.Value
\* holds; the test for nil after it is reached only with a stored value.
OldPublisher ==
    /\ rev = "old"
    /\ pub' = IF storedPublishingFunc = 0
              THEN [res |-> "panic", ch |-> 0, stale |-> FALSE,
                    afterInit |-> initPc = "returned" /\ initRes = "nil" /\ ~ctxAtRet]
              ELSE [res |-> "sent", ch |-> storedPublishingFunc,
                    stale |-> conn[storedPublishingFunc] = "closed",
                    afterInit |-> initPc = "returned" /\ initRes = "nil" /\ ~ctxAtRet]
    /\ pub' # pub
    /\ UNCHANGED <<subVars, ctxDone, runVars, conn, inv, grpVars, latchVars, initVars,
                   storedPublishingFunc, loop, subClosed, invHist, byNotify, cwGen>>

\* The goroutine of Init: err = Run(...), then the deferred close(stop).
InitGoEndOld ==
    /\ rev = "old"
    /\ runPc = "ret"
    /\ initErr' = runRes
    /\ CloseStop("run", "done")
    /\ UNCHANGED <<subVars, rev, ctxDone, gen, dialI, conn, idx, err, runRes, inv, grpVars,
                   once, initPc, initRes, ctxAtRet, storedPublishingFunc, loop,
                   subClosed, histVars>>

InitOld == rev = "old" /\ InitCommon

NextOld ==
    \/ RunConnect
    \/ DialFail
    \/ DialOkOld
    \/ ConnectFail
    \/ OldChannel
    \/ \E i \in 1..NWorkers : OldWorker(i)
    \/ OldConsumeReturn
    \/ OldWatcher
    \/ GrpWait
    \/ RunClose
    \/ RunCheck
    \/ InitGoEndOld
    \/ InitReturn
    \/ Cancel
    \/ BrokerClose
    \/ SubChannelClose
    \/ OldPublisher

SpecOld == InitOld /\ [][NextOld]_vars

RunOldStep ==
    \/ RunConnect
    \/ DialFail
    \/ DialOkOld
    \/ ConnectFail
    \/ OldChannel
    \/ GrpWait
    \/ RunClose
    \/ RunCheck

FairOld ==
    /\ SpecOld
    /\ WF_vars(RunOldStep)
    /\ WF_vars(OldWatcher)
    /\ WF_vars(OldConsumeReturn)
    /\ \A i \in 1..NWorkers : WF_vars(OldWorker(i))
    /\ WF_vars(InitGoEndOld)
    /\ WF_vars(InitReturn)

----------------------------------------------------------------------------
\* Queue (queue.go): the effective name over the declarations that the
\* consumer initializer makes, one on each connection generation.

\* Number of declarations of one Queue that a behaviour follows.
MaxDecl == 5

\* The requested names: none (a private queue) or a fixed one.
QueueNames == {"", "jobs", "replies"}

\* The names the broker generates for declarations with an empty name.
Generated == [n \in 1..(MaxDecl + 1) |->
                CASE n = 1 -> "amq.gen-1" [] n = 2 -> "amq.gen-2"
                  [] n = 3 -> "amq.gen-3" [] n = 4 -> "amq.gen-4"
                  [] n = 5 -> "amq.gen-5" [] OTHER -> "amq.gen-6"]

\* String that returns the stored name only.
StringStoredOnly(qq) == qq.queue

\* Queue.String: the stored name when there is one, otherwise Name.
String(qq) == IF qq.queue # "" THEN qq.queue ELSE qq.Name

\* ch.QueueDeclare as the broker answers it: the name it was asked for, a
\* name it generates when asked for none, the zero Queue with an error.
QueueDeclare(name, ok) ==
    IF ~ok THEN ""
    ELSE IF name = "" THEN Generated[Len(asked) + 1]
    ELSE name

\* Declare that stores the name of the answer only when there is no error.
DeclareKeepsOnError ==
    /\ Len(asked) < MaxDecl
    /\ \E ok \in BOOLEAN :
        /\ q' = IF ok THEN [q EXCEPT !.queue = QueueDeclare(String(q), ok)] ELSE q
        /\ replied' = Append(replied, QueueDeclare(String(q), ok))
    /\ asked' = Append(asked, String(q))
    /\ UNCHANGED <<supVars, connectVars, msgVars, chanVars, streamVars, srVars>>

\* Queue.declare: QueueDeclare under the name String() gives; the name of
\* the answer is stored whether or not the declaration failed.
Declare ==
    /\ Len(asked) < MaxDecl
    /\ \E ok \in BOOLEAN :
        /\ q' = [q EXCEPT !.queue = QueueDeclare(String(q), ok)]
        /\ replied' = Append(replied, QueueDeclare(String(q), ok))
    /\ asked' = Append(asked, String(q))
    /\ UNCHANGED <<supVars, connectVars, msgVars, chanVars, streamVars, srVars>>

InitQueue ==
    /\ rev = "seq"
    /\ InitRun
    /\ q \in {NewQueue(name) : name \in QueueNames}
    /\ asked = <<>>
    /\ replied = <<>>
    /\ ConnectIdle /\ MsgIdle /\ ChanIdle /\ StreamIdle /\ SrIdle

NextQueue == Declare

SpecQueue == InitQueue /\ [][NextQueue]_vars

----------------------------------------------------------------------------
\* Connect (connect.go) with the outcome of every dial, over the calls that
\* Run makes, one for each generation.

\* The errors a dial can fail with.
DialErrors == {"refused", "timeout", "reset"}

\* Run calls Connect: the named results start at their zero values, i := 0.
ConnectCall ==
    /\ cPc = "idle"
    /\ Len(returned) < MaxGen
    /\ cPc' = "loop"
    /\ cI' = 0
    /\ cConn' = 0
    /\ cErr' = "nil"
    /\ dialed' = <<>>
    /\ UNCHANGED <<cMax, returned, supVars, queueVars, msgVars, chanVars, streamVars,
                   srVars>>

\* ConnectDial with the test i <= MaxIteration.
ConnectDialOneMore ==
    /\ cPc = "loop"
    /\ cI <= cMax
    /\ \E out \in {"ok"} \cup DialErrors :
        /\ dialed' = Append(dialed, out)
        /\ IF out = "ok"
           THEN /\ cConn' = Len(dialed) + 1
                /\ cErr' = "nil"
                /\ cI' = cI
                /\ cPc' = "idle"
                /\ returned' = Append(returned, [conn |-> Len(dialed) + 1, err |-> "nil"])
           ELSE /\ cConn' = 0
                /\ cErr' = out
                /\ cI' = cI + 1
                /\ UNCHANGED <<cPc, returned>>
    /\ UNCHANGED <<cMax, supVars, queueVars, msgVars, chanVars, streamVars, srVars>>

\* One turn of the loop, i < MaxIteration: conn, err = amqp091.Dial(addr);
\* return conn, nil when err is nil; otherwise sleep and i++.
ConnectDial ==
    /\ cPc = "loop"
    /\ cI < cMax
    /\ \E out \in {"ok"} \cup DialErrors :
        /\ dialed' = Append(dialed, out)
        /\ IF out = "ok"
           THEN /\ cConn' = Len(dialed) + 1
                /\ cErr' = "nil"
                /\ cI' = cI
                /\ cPc' = "idle"
                /\ returned' = Append(returned, [conn |-> Len(dialed) + 1, err |-> "nil"])
           ELSE /\ cConn' = 0
                /\ cErr' = out
                /\ cI' = cI + 1
                /\ UNCHANGED <<cPc, returned>>
    /\ UNCHANGED <<cMax, supVars, queueVars, msgVars, chanVars, streamVars, srVars>>

\* The loop is over: return nil, err.
ConnectExhausted ==
    /\ cPc = "loop"
    /\ cI >= cMax
    /\ cPc' = "idle"
    /\ returned' = Append(returned, [conn |-> 0, err |-> cErr])
    /\ UNCHANGED <<cMax, cI, cConn, cErr, dialed, supVars, queueVars, msgVars,
                   chanVars, streamVars, srVars>>

InitConnect ==
    /\ rev = "seq"
    /\ InitRun
    /\ ConnectIdle
    /\ QueueIdle /\ MsgIdle /\ ChanIdle /\ StreamIdle /\ SrIdle

NextConnect ==
    \/ ConnectCall
    \/ ConnectDial
    \/ ConnectExhausted

SpecConnect == InitConnect /\ [][NextConnect]_vars

\* The values a program can give the package variable MaxIteration before it
\* calls Run: an int, negative and zero included.
MaxIterationValues == {-1, 0} \cup (1..MaxIteration)

InitConnectAny ==
    /\ rev = "seq"
    /\ InitRun
    /\ cMax \in MaxIterationValues
    /\ cPc = "idle" /\ cI = 0 /\ cConn = 0 /\ cErr = "nil"
    /\ dialed = <<>> /\ returned = <<>>
    /\ QueueIdle /\ MsgIdle /\ ChanIdle /\ StreamIdle /\ SrIdle

SpecConnectAny == InitConnectAny /\ [][NextConnect]_vars

----------------------------------------------------------------------------
\* The publish function over its options and the caller's message
\* (part_002): what it passes on to the stored closure when the slot is not
\* empty.

\* time.Now() at the call, in seconds of the Unix epoch.
Now == 10

\* The time-to-live values WithTTL is given, in seconds.
TTLs == {-1, 0, 2}

Digit == <<"0", "1", "2", "3", "4", "5", "6", "7", "8", "9">>

\* strconv.FormatInt(n, 10) for 0 <= n < 100.
FormatInt(n) ==
    IF n < 10 THEN Digit[n + 1] ELSE Digit[(n \div 10) + 1] \o Digit[(n % 10) + 1]

\* The queues WithReplyQueue is given: not declared yet, declared under a
\* generated name, with a fixed name.
ReplyQueues == {NewQueue(""), [Name |-> "", queue |-> "amq.gen-1"], NewQueue("jobs")}

\* The publishOptions a caller can build.
OptInputs ==
    {o \in [timestamp : BOOLEAN, appID : {"", "svc"}, hasReplyQueue : BOOLEAN,
            replyToQueue : ReplyQueues, replyTo : {"", "replies"}, ttl : TTLs] :
        ~o.hasReplyQueue => o.replyToQueue = NewQueue("")}

\* The messages a caller can pass.
MsgInputs ==
    [ReplyTo : {"", "caller"}, Timestamp : {0, 5}, Expiration : {"", "99"},
     AppId : {"", "callerApp"}]

\* Defaults in which the WithReplyTo string wins over the reply queue.
DefaultsReplyToFirst(o, m) ==
    [ReplyTo |-> IF m.ReplyTo # "" THEN m.ReplyTo
                 ELSE IF o.replyTo # "" THEN o.replyTo
                 ELSE IF o.hasReplyQueue THEN String(o.replyToQueue) ELSE "",
     Timestamp |-> IF m.Timestamp = 0 /\ o.timestamp THEN Now ELSE m.Timestamp,
     Expiration |-> IF m.Expiration = "" /\ o.ttl > 0
                    THEN FormatInt(Now + o.ttl) ELSE m.Expiration,
     AppId |-> IF o.appID # "" THEN o.appID ELSE m.AppId]

\* The publisher closure between the test of the slot and the call of the
\* stored closure: ReplyTo, Timestamp, Expiration, AppId.
Defaults(o, m) ==
    [ReplyTo |-> IF m.ReplyTo = ""
                 THEN IF o.hasReplyQueue THEN String(o.replyToQueue) ELSE o.replyTo
                 ELSE m.ReplyTo,
     Timestamp |-> IF m.Timestamp = 0 /\ o.timestamp THEN Now ELSE m.Timestamp,
     Expiration |-> IF m.Expiration = "" /\ o.ttl > 0
                    THEN FormatInt(Now + o.ttl) ELSE m.Expiration,
     AppId |-> IF o.appID # "" THEN o.appID ELSE m.AppId]

\* A call of the publish function with a non-empty slot: the message, with
\* the defaults applied to the copy the call received, goes to the closure.
PublishForward ==
    /\ ~fwdDone
    /\ fwd' = Defaults(opts, msg)
    /\ fwdDone' = TRUE
    /\ UNCHANGED <<opts, msg, supVars, queueVars, connectVars, chanVars, streamVars,
                   srVars>>

InitMsg ==
    /\ rev = "seq"
    /\ InitRun
    /\ opts \in OptInputs
    /\ msg \in MsgInputs
    /\ fwd = ZeroMsg
    /\ fwdDone = FALSE
    /\ QueueIdle /\ ConnectIdle /\ ChanIdle /\ StreamIdle /\ SrIdle

NextMsg == PublishForward

SpecMsg == InitMsg /\ [][NextMsg]_vars

----------------------------------------------------------------------------
\* The sub-channels Run opens for the initializers (part_001:26-37,
\* part_006:186-201). conn.Channel() returns a new channel object at each
\* call; chAlloc counts the objects handed out so far and names the newest.

\* Every task of the generation is done or the fan-out was cut short by a
\* failed conn.Channel(), and no task holds a channel it has not passed on.
ChanGenOver ==
    /\ \A i \in 1..NWorkers : chTask[i] # "chan"
    /\ \/ \A i \in 1..NWorkers : chTask[i] = "done"
       \/ \E i \in 1..NWorkers : chTask[i] = "fail"

\* Connect succeeded: the loop over the initializers starts afresh.
ChanConnect ==
    /\ chGen < MaxGen
    /\ chGen = 0 \/ ChanGenOver
    /\ chGen' = chGen + 1
    /\ chIdx' = 1
    /\ chTask' = [i \in 1..NWorkers |-> "no"]
    /\ chLocal' = [i \in 1..NWorkers |-> 0]
    /\ UNCHANGED <<chAlloc, chPassed, supVars, queueVars, connectVars, msgVars,
                   streamVars, srVars>>

\* conn.Channel() hoisted out of the loop: one channel for the generation.
ChanOpenShared(i) ==
    /\ chGen >= 1
    /\ chTask[i] = "no"
    /\ rev = "seq" => (i = chIdx /\ \A j \in 1..NWorkers : chTask[j] # "fail")
    /\ LET have == {chLocal[j] : j \in 1..NWorkers} \ {0}
           ch == IF have = {} THEN chAlloc + 1 ELSE CHOOSE c \in have : TRUE
       IN /\ chAlloc' = IF have = {} THEN chAlloc + 1 ELSE chAlloc
          /\ chLocal' = [chLocal EXCEPT ![i] = ch]
          /\ chTask' = [chTask EXCEPT ![i] = "chan"]
    /\ UNCHANGED <<chGen, chIdx, chPassed, supVars, queueVars, connectVars, msgVars,
                   streamVars, srVars>>

\* ch, err := conn.Channel() of task i. In the sequential revision the tasks
\* take their turn and a failure breaks the loop; in the errgroup revision
\* each task calls it in its own goroutine.
ChanOpen(i) ==
    /\ chGen >= 1
    /\ chTask[i] = "no"
    /\ rev = "seq" => (i = chIdx /\ \A j \in 1..NWorkers : chTask[j] # "fail")
    /\ \E ok \in BOOLEAN :
          IF ok
          THEN /\ chAlloc' = chAlloc + 1
               /\ chLocal' = [chLocal EXCEPT ![i] = chAlloc + 1]
               /\ chTask' = [chTask EXCEPT ![i] = "chan"]
          ELSE /\ chTask' = [chTask EXCEPT ![i] = "fail"]
               /\ UNCHANGED <<chAlloc, chLocal>>
    /\ UNCHANGED <<chGen, chIdx, chPassed, supVars, queueVars, connectVars, msgVars,
                   streamVars, srVars>>

\* init(ch) / worker(ch) of task i with the channel it has just opened.
ChanInvoke(i) ==
    /\ chTask[i] = "chan"
    /\ chPassed' = chPassed \cup {[gen |-> chGen, task |-> i, ch |-> chLocal[i]]}
    /\ chTask' = [chTask EXCEPT ![i] = "done"]
    /\ chIdx' = IF rev = "seq" THEN chIdx + 1 ELSE chIdx
    /\ UNCHANGED <<chGen, chLocal, chAlloc, supVars, queueVars, connectVars, msgVars,
                   streamVars, srVars>>

InitChan ==
    /\ rev \in {"seq", "grp"}
    /\ InitRun
    /\ ChanIdle
    /\ QueueIdle /\ ConnectIdle /\ MsgIdle /\ StreamIdle /\ SrIdle

NextChan ==
    \/ ChanConnect
    \/ \E i \in 1..NWorkers : ChanOpen(i)
    \/ \E i \in 1..NWorkers : ChanInvoke(i)

SpecChan == InitChan /\ [][NextChan]_vars

----------------------------------------------------------------------------
\* The delivery stream of one consumer in one generation and the loop over it
\* (consumer.go:41-47): the broker side appends deliveries and ends the
\* stream, the loop receives and calls the handler.

MaxMsgs == 3

Messages == {"a", "b"}

\* The broker delivers a message on the stream.
StreamDeliver(m) ==
    /\ ~strmClosed
    /\ Len(delivered) < MaxMsgs
    /\ strm' = Append(strm, m)
    /\ delivered' = Append(delivered, m)
    /\ UNCHANGED <<strmClosed, handled, dlPc, dlMsg, supVars, queueVars, connectVars,
                   msgVars, chanVars, srVars>>

\* The stream ends: the library closes the Go channel of deliveries.
StreamEnd ==
    /\ ~strmClosed
    /\ strmClosed' = TRUE
    /\ UNCHANGED <<strm, delivered, handled, dlPc, dlMsg, supVars, queueVars,
                   connectVars, msgVars, chanVars, srVars>>

\* for msg := range consumer: the next delivery is received.
DeliveryRecv ==
    /\ dlPc = "range"
    /\ strm # <<>>
    /\ dlMsg' = Head(strm)
    /\ strm' = Tail(strm)
    /\ dlPc' = "handler"
    /\ UNCHANGED <<strmClosed, delivered, handled, supVars, queueVars, connectVars,
                   msgVars, chanVars, srVars>>

\* handler(msg)
DeliveryHandler ==
    /\ dlPc = "handler"
    /\ handled' = Append(handled, dlMsg)
    /\ dlPc' = "range"
    /\ UNCHANGED <<strm, strmClosed, delivered, dlMsg, supVars, queueVars,
                   connectVars, msgVars, chanVars, srVars>>

\* A loop that leaves as soon as the stream is closed.
DeliveryEndAtClose ==
    /\ dlPc = "range"
    /\ strmClosed
    /\ dlPc' = "exited"
    /\ UNCHANGED <<strm, strmClosed, delivered, handled, dlMsg, supVars, queueVars,
                   connectVars, msgVars, chanVars, srVars>>

\* range over a closed channel ends once the channel is drained.
DeliveryEnd ==
    /\ dlPc = "range"
    /\ strmClosed
    /\ strm = <<>>
    /\ dlPc' = "exited"
    /\ UNCHANGED <<strm, strmClosed, delivered, handled, dlMsg, supVars, queueVars,
                   connectVars, msgVars, chanVars, srVars>>

InitStream ==
    /\ rev = "seq"
    /\ InitRun
    /\ StreamIdle
    /\ QueueIdle /\ ConnectIdle /\ MsgIdle /\ ChanIdle /\ SrIdle

NextStream ==
    \/ \E m \in Messages : StreamDeliver(m)
    \/ StreamEnd
    \/ DeliveryRecv
    \/ DeliveryHandler
    \/ DeliveryEnd

SpecStream == InitStream /\ [][NextStream]_vars

----------------------------------------------------------------------------
\* SendReceive (service.go). Run is invoked once per generation, each
\* invocation with the channel of its generation; invocation k stores channel
\* k and the queue name the broker returned to it, written k. Send runs in
\* the caller's goroutine. srMu is the RWMutex: "free", "W" (Run holds the
\* write lock) or "R" (Send holds the read lock).

MaxRuns == 2

\* A ReplyTo the caller of Send filled in; 0 is the empty string, k >= 1 the
\* queue name of invocation k.
CallerReplyTo == -1

\* Run is invoked: QueueDeclare and Consume, an error of either returned
\* before anything is stored.
SrRunDeclare ==
    /\ srRunPc = "idle"
    /\ srRunK < MaxRuns
    /\ srRunK' = srRunK + 1
    /\ \E ok \in BOOLEAN : srRunPc' = IF ok THEN "lock" ELSE "idle"
    /\ UNCHANGED <<srCh, srQueue, srMu, srSendPc, srReplyTo, srOut, supVars, queueVars, connectVars,
                   msgVars, chanVars, streamVars>>

\* sr.mu.Lock()
SrRunLock ==
    /\ srRunPc = "lock"
    /\ srMu = "free"
    /\ srMu' = "W"
    /\ srRunPc' = "queue"
    /\ UNCHANGED <<srCh, srQueue, srRunK, srSendPc, srReplyTo, srOut, supVars, queueVars, connectVars,
                   msgVars, chanVars, streamVars>>

\* sr.queue = q.Name
SrRunSetQueue ==
    /\ srRunPc = "queue"
    /\ srQueue' = srRunK
    /\ srRunPc' = "ch"
    /\ UNCHANGED <<srCh, srMu, srRunK, srSendPc, srReplyTo, srOut, supVars, queueVars, connectVars,
                   msgVars, chanVars, streamVars>>

\* sr.ch = ch
SrRunSetCh ==
    /\ srRunPc = "ch"
    /\ srCh' = srRunK
    /\ srRunPc' = "unlock"
    /\ UNCHANGED <<srQueue, srMu, srRunK, srSendPc, srReplyTo, srOut, supVars, queueVars, connectVars,
                   msgVars, chanVars, streamVars>>

\* sr.mu.Unlock(); Run goes on to the loop over the deliveries.
SrRunUnlock ==
    /\ srRunPc = "unlock"
    /\ srMu' = "free"
    /\ srRunPc' = "loop"
    /\ UNCHANGED <<srCh, srQueue, srRunK, srSendPc, srReplyTo, srOut, supVars, queueVars, connectVars,
                   msgVars, chanVars, streamVars>>

\* The stream of deliveries ends: return nil.
SrRunReturn ==
    /\ srRunPc = "loop"
    /\ srRunPc' = "idle"
    /\ UNCHANGED <<srCh, srQueue, srMu, srRunK, srSendPc, srReplyTo, srOut, supVars, queueVars, connectVars,
                   msgVars, chanVars, streamVars>>

\* Send is called with a message whose ReplyTo is r.
SrSendCall(r) ==
    /\ srSendPc = "idle"
    /\ srReplyTo' = r
    /\ srOut' = NoSend
    /\ srSendPc' = "rlock"
    /\ UNCHANGED <<srCh, srQueue, srMu, srRunPc, srRunK, supVars, queueVars, connectVars,
                   msgVars, chanVars, streamVars>>

\* Send that does not take the lock.
SrSendNoLock ==
    /\ srSendPc = "rlock"
    /\ srSendPc' = "reply"
    /\ UNCHANGED <<srCh, srQueue, srMu, srRunPc, srRunK, srReplyTo, srOut, supVars, queueVars, connectVars,
                   msgVars, chanVars, streamVars>>

\* sr.mu.RLock()
SrSendRLock ==
    /\ srSendPc = "rlock"
    /\ srMu = "free"
    /\ srMu' = "R"
    /\ srSendPc' = "reply"
    /\ UNCHANGED <<srCh, srQueue, srRunPc, srRunK, srReplyTo, srOut, supVars, queueVars, connectVars,
                   msgVars, chanVars, streamVars>>

\* if msg.ReplyTo == "" { msg.ReplyTo = sr.queue }
SrSendReplyTo ==
    /\ srSendPc = "reply"
    /\ srReplyTo' = IF srReplyTo = 0 THEN srQueue ELSE srReplyTo
    /\ srSendPc' = "check"
    /\ UNCHANGED <<srCh, srQueue, srMu, srRunPc, srRunK, srOut, supVars, queueVars, connectVars,
                   msgVars, chanVars, streamVars>>

\* if sr.ch == nil { return error }; return sr.ch.PublishWithContext(...);
\* the deferred RUnlock runs at the return.
SrSendPublish ==
    /\ srSendPc = "check"
    /\ srOut' = IF srCh = 0
                THEN [res |-> "err", ch |-> 0, replyTo |-> 0]
                ELSE [res |-> "sent", ch |-> srCh, replyTo |-> srReplyTo]
    /\ srMu' = IF srMu = "R" THEN "free" ELSE srMu
    /\ srSendPc' = "idle"
    /\ UNCHANGED <<srCh, srQueue, srRunPc, srRunK, srReplyTo, supVars, queueVars, connectVars,
                   msgVars, chanVars, streamVars>>

InitSendReceive ==
    /\ rev = "seq"
    /\ InitRun
    /\ SrIdle
    /\ QueueIdle /\ ConnectIdle /\ MsgIdle /\ ChanIdle /\ StreamIdle

NextSendReceive ==
    \/ SrRunDeclare
    \/ SrRunLock
    \/ SrRunSetQueue
    \/ SrRunSetCh
    \/ SrRunUnlock
    \/ SrRunReturn
    \/ \E r \in {0, CallerReplyTo} : SrSendCall(r)
    \/ SrSendRLock
    \/ SrSendReplyTo
    \/ SrSendPublish

SpecSendReceive == InitSendReceive /\ [][NextSendReceive]_vars

----------------------------------------------------------------------------
\* Claims

\* Every Dial of the first Connect call has failed.
AllDialsFailed == gen = 1 /\ conn[1] = "none" /\ dialI = MaxIteration

RunReturned == runPc \in {"ret", "done"}

\* C1: if every dial attempt of the first generation's Connect fails, Run
\* returns a non-nil error, Init returns that same error, and no initializer,
\* Init's sentinel included, is ever invoked.
C1_State ==
    AllDialsFailed =>
        /\ runPc \in {"dial", "ret", "done"}
        /\ RunReturned => runRes = "connErr"
        /\ initPc = "returned" => initRes = "connErr" /\ runPc = "done"
        /\ \A i \in 1..NWorkers : inv[i] = "no"
        /\ okOnce = {} /\ errGen = 0
        /\ latchBy # "sentinel"
        /\ storedPublishingFunc = 0
        /\ \A g \in Gens : loop[g] = "none"

C1_ConnectErrorSurfaced ==
    /\ []C1_State
    /\ AllDialsFailed ~> (initPc = "returned" /\ initRes = "connErr")

C1_Witness == AllDialsFailed /\ initPc = "returned" /\ initRes = "connErr"

\* C2: if a registered initializer returns a non-nil error during the first
\* generation, Init returns a non-nil error: it does not return nil because a
\* later generation succeeded. (Stated for a context that is live when Init
\* returns, so that a planned shutdown is not what makes Init return nil.)
C2_FirstErrorSurfaced ==
    (errGen = 1 /\ initPc = "returned" /\ ~ctxAtRet) => initRes # "nil"

\* C3: with the errgroup Run, at the moment Init returns either every
\* registered initializer has completed an invocation, or one of them has
\* returned an error, or Run has returned. (Each disjunct, once true, stays
\* true, so the state after the return decides it.)
C3_InitAfterFirstPass ==
    initPc = "returned" =>
        \/ okOnce = Registered
        \/ errGen # 0
        \/ RunReturned

\* C4: a publish call made after Run closed the connection of the closure in
\* the slot, and before a new closure is stored, returns ErrNoChannel and is
\* not forwarded to the sub-channel of the closed connection.
C4_NoPublishOnClosed ==
    pub.stale => pub.res = "ErrNoChannel"

\* C5: if the outer context is cancelled while Run waits on a live connection
\* whose initializers all returned nil (cwGen records that generation), Run
\* leaves the wait, closes that connection and returns nil, and no Connect
\* follows: the generation stays cwGen.
C5_State ==
    cwGen # 0 =>
        /\ gen = cwGen
        /\ runPc \in {"select", "waitgrp", "close", "check", "ret", "done"}
        /\ runPc \in {"check", "ret", "done"} => conn[cwGen] = "closed"
        /\ RunReturned => runRes = "nil"

C5_CancelStopsRun ==
    /\ []C5_State
    /\ \A g \in Gens :
          (cwGen = g) ~> (RunReturned /\ runRes = "nil" /\ conn[g] = "closed")

C5_Witness ==
    /\ rev = "grp" /\ cwGen = 1 /\ gen = 1
    /\ runPc = "done" /\ runRes = "nil" /\ conn[1] = "closed"

\* C6: if the close notification fires while the context is live, Run closes
\* the connection and connects again; a generation that follows a close
\* notification reaches the wait only after every initializer was invoked
\* again on the new connection (the consumer declaring its queue and starting
\* a delivery loop of that generation, the publisher storing the closure of
\* that generation); and a delivery loop whose stream is closed terminates.
C6_State ==
    (gen >= 2 /\ byNotify /\ runPc = "select") =>
        /\ conn[gen - 1] = "closed"
        /\ \A i \in 1..NWorkers : inv[i] = "ok"
        /\ loop[gen] # "none"
        /\ storedPublishingFunc = gen

C6_Step ==
    /\ (runPc = "check" /\ ~ctxDone /\ runPc' # runPc) => runPc' = "loop"
    /\ (runPc = "loop" /\ runPc' # runPc) =>
           runPc' = "dial" /\ gen' = gen + 1 /\ byNotify' = (err = "closeErr")
    /\ (runPc = "dial" /\ runPc' = "init") =>
           conn'[gen] = "open" /\ idx' = 1 /\ \A i \in 1..NWorkers : inv[i] = "no"

C6_ReconnectOnClose ==
    /\ []C6_State
    /\ [][C6_Step]_vars
    /\ \A g \in 1..(MaxGen - 1) :
          (gen = g /\ runPc = "select" /\ conn[g] # "open" /\ ~ctxDone)
              ~> (ctxDone \/ (gen = g + 1 /\ byNotify))
    /\ \A g \in Gens :
          (loop[g] = "running" /\ StreamClosed(g)) ~> (loop[g] = "exited")

C6_Witness ==
    /\ gen = 2 /\ byNotify /\ runPc = "select" /\ ~ctxDone
    /\ loop[1] = "exited" /\ loop[2] = "running"
    /\ storedPublishingFunc = 2

\* C7: when the delivery loop of the current generation has ended because
\* only its sub-channel was closed, and the context is live, Run tears the
\* generation down and starts a new one (unless the context is cancelled or
\* the connection is lost in the meantime).
C7_LoopExitReconnects ==
    \A g \in 1..(MaxGen - 1) :
        (gen = g /\ loop[g] = "exited" /\ subClosed /\ conn[g] = "open"
            /\ runPc = "select" /\ ~ctxDone)
          ~> (gen > g \/ ctxDone \/ conn[g] # "open")

\* C8: the stop channel is closed at most once, and it is closed once the
\* sentinel has been invoked or Run has returned to the goroutine of Init,
\* over every generation and whichever of the two comes first.
C8_State ==
    /\ stop <= 1
    /\ once <=> stop = 1
    /\ latchBy # "none" <=> stop = 1
    /\ runPc = "done" => stop = 1
    /\ (gen >= 1 /\ inv[NWorkers] = "ok") => stop = 1
    /\ initPc = "returned" => stop = 1

C8_LatchOnce ==
    /\ []C8_State
    /\ [][stop' # stop => stop = 0 /\ stop' = 1]_vars

C8_Witness ==
    /\ gen = 2 /\ inv[NWorkers] = "ok" /\ latchBy = "sentinel"
    /\ okOnce = Registered /\ errGen = 0
    /\ runPc = "done" /\ stop = 1

\* C9: if the latch was fired by the sentinel, Init returns nil.
C9_SentinelMeansNil ==
    (initPc = "returned" /\ latchBy = "sentinel") => initRes = "nil"

\* C10: if Init returns nil and the context was not cancelled before the
\* return, the publisher slot is stored at the return (it is never emptied
\* afterwards), and a publish call made after the return does not yield
\* ErrNoChannel.
C10_State ==
    /\ (initPc = "returned" /\ initRes = "nil" /\ ~ctxAtRet) =>
           storedPublishingFunc # 0
    /\ pub.afterInit => pub.res = "sent"

C10_SlotStoredAtReturn ==
    /\ []C10_State
    /\ [][storedPublishingFunc # 0 => storedPublishingFunc' # 0]_vars

C10_Witness == pub.afterInit /\ pub.res = "sent" /\ gen = 1

\* Position of the publisher initializer among the workers.
PubIdx == CHOOSE i \in 1..NWorkers : Workers[i] = "publisher"

\* C11: the slot is empty exactly as long as no invocation of the publisher
\* initializer has returned nil; a publish call made then is possible at once
\* (it does not wait for the slot), returns ErrNoChannel and forwards the
\* message to no channel.
C11_State ==
    /\ storedPublishingFunc = 0 <=> PubIdx \notin okOnce
    /\ pub.res = "ErrNoChannel" => pub.ch = 0
    /\ pub.ch = 0 /\ pub.res # "none" => pub.res = "ErrNoChannel"
    /\ (storedPublishingFunc = 0 /\ pub.res # "ErrNoChannel") => ENABLED Publisher

C11_Step ==
    (pub' # pub /\ storedPublishingFunc = 0) =>
        pub'.res = "ErrNoChannel" /\ pub'.ch = 0

C11_EmptySlotNoChannel == []C11_State /\ [][C11_Step]_vars

C11_Witness ==
    /\ pub.res = "ErrNoChannel" /\ storedPublishingFunc = 0
    /\ gen = 1 /\ conn[1] = "open" /\ inv[PubIdx] # "ok"

\* C12: once the publisher initializer of the current generation has
\* returned nil the slot holds the closure of that generation, the slot never
\* goes back to an earlier generation, and a publish call is forwarded to the
\* channel of the closure the slot holds when the call is made.
C12_State ==
    /\ inv[PubIdx] = "ok" => storedPublishingFunc = gen
    /\ storedPublishingFunc <= gen

C12_Step ==
    /\ storedPublishingFunc' >= storedPublishingFunc
    /\ (pub' # pub /\ storedPublishingFunc # 0) =>
           pub'.res = "sent" /\ pub'.ch = storedPublishingFunc

C12_NewestClosure == []C12_State /\ [][C12_Step]_vars

C12_Witness ==
    /\ gen = 2 /\ inv[PubIdx] = "ok" /\ storedPublishingFunc = 2
    /\ pub.res = "sent" /\ pub.ch = 2 /\ PubIdx \in okOnce

\* C13: Run calls Connect for the next generation only after the connection
\* of the current one is closed and every task of the current one has
\* terminated: the initializer invocations, the connection watcher and the
\* delivery loop its consumer initializer started.
C13_TeardownBeforeNext ==
    [][(gen >= 1 /\ gen' = gen + 1) =>
          /\ conn[gen] = "closed"
          /\ \A i \in 1..NWorkers : inv[i] \notin {"chan", "spawned"}
          /\ watcher # "waiting"
          /\ loop[gen] # "running"]_vars

\* C14: when Run returns with the outer context already cancelled, it
\* returns nil.
C14_NilAfterCancel ==
    [][(runPc # "ret" /\ runPc' = "ret" /\ ctxDone) => runRes' = "nil"]_vars

\* C15: no call of Connect for a further generation begins after the outer
\* context has been cancelled.
C15_NoConnectAfterCancel ==
    [][(gen >= 1 /\ gen' = gen + 1) => ~ctxDone]_vars

\* A task of the current generation has returned an error.
TaskFailed == \E i \in 1..NWorkers : inv[i] = "err"

\* C16: after a task of a generation returned an error Run returns only if
\* the context is cancelled; with a live context it closes the connection
\* and calls Connect again, and the initializers of the new generation are
\* taken from the first one on.
C16_State ==
    /\ (TaskFailed /\ RunReturned) => ctxDone /\ runRes = "nil"
    /\ (runPc \in {"init", "spawn"} /\ \A i \in 1..NWorkers : inv[i] = "no") => idx = 1

C16_Step ==
    /\ (gen >= 1 /\ gen' = gen + 1) => conn[gen] = "closed"
    /\ (runPc = "dial" /\ runPc' \in {"init", "spawn"}) =>
           idx' = 1 /\ \A i \in 1..NWorkers : inv'[i] = "no"

C16_RetryAfterInitError ==
    /\ []C16_State
    /\ [][C16_Step]_vars
    /\ \A g \in 1..(MaxGen - 1) :
          (gen = g /\ TaskFailed /\ ~ctxDone) ~> (ctxDone \/ gen = g + 1)

C16_Witness ==
    /\ gen = 2 /\ errGen = 1 /\ ~ctxDone
    /\ conn[1] = "closed" /\ conn[2] = "open" /\ inv[1] = "ok"

\* C17: in the first revision too, a failure to allocate a sub-channel does
\* not make Run return an error: Run returns nil (planned shutdown) or the
\* error of Connect, nothing else.
C17_ChannelErrorRetries == RunReturned => runRes \in {"nil", "connErr"}

\* Position of the consumer among the workers.
ConsIdx == CHOOSE i \in 1..NWorkers : Workers[i] = "consumer"

\* C18: when the blocking consumer worker has returned nil while the
\* connection is open and the context is live, Run goes on to a new
\* generation (unless the context is cancelled or the connection is lost in
\* the meantime).
C18_NilReturnReconnects ==
    \A g \in 1..(MaxGen - 1) :
        (gen = g /\ runPc = "waitgrp" /\ inv[ConsIdx] = "ok"
            /\ conn[g] = "open" /\ ~ctxDone)
          ~> (gen > g \/ ctxDone \/ conn[g] # "open")

\* Declarations n and n + 1 both succeeded.
BothDeclared(n) == n + 1 <= Len(replied) /\ replied[n] # "" /\ replied[n + 1] # ""

\* C19: for a Queue with an empty Name, a declaration that follows a
\* successful one passes the empty name again, and the two effective names
\* differ.
C19_EmptyNameRegenerated ==
    q.Name = "" =>
        \A n \in 1..MaxDecl :
            BothDeclared(n) => asked[n + 1] = "" /\ replied[n + 1] # replied[n]

\* C20: for a Queue with a non-empty Name every declaration passes Name,
\* and after any number of successful declarations String() is Name.
C20_FixedNameStable ==
    q.Name # "" =>
        /\ \A n \in 1..Len(asked) : asked[n] = q.Name
        /\ (\A n \in 1..Len(replied) : replied[n] # "") =>
               /\ String(q) = q.Name
               /\ Len(replied) > 0 => q.queue = q.Name

C20_Witness ==
    /\ q.Name = "jobs" /\ Len(replied) >= 2
    /\ \A n \in 1..Len(replied) : replied[n] = "jobs"
    /\ String(q) = "jobs"

\* The call of Connect that was begun last has returned.
ConnectReturned == cPc = "idle" /\ Len(returned) > 0

\* What that call returned.
LastReturned == returned[Len(returned)]

\* C21: a call of Connect dials at most MaxIteration times; a successful
\* dial is the last one of the call and Connect returns its connection with a
\* nil error; when MaxIteration dials have failed Connect returns no
\* connection and the error of the last dial.
C21_ConnectRetries ==
    /\ Len(dialed) <= MaxIteration
    /\ \A k \in 1..Len(dialed) : dialed[k] = "ok" => k = Len(dialed)
    /\ (cPc = "loop" /\ Len(dialed) > 0) => dialed[Len(dialed)] # "ok"
    /\ ConnectReturned =>
          /\ Len(dialed) >= 1
          /\ IF dialed[Len(dialed)] = "ok"
             THEN LastReturned = [conn |-> Len(dialed), err |-> "nil"]
             ELSE /\ Len(dialed) = MaxIteration
                  /\ LastReturned = [conn |-> 0, err |-> dialed[MaxIteration]]

C21_Witness ==
    /\ Len(returned) = 2
    /\ returned[1] = [conn |-> 2, err |-> "nil"]
    /\ cPc = "idle" /\ Len(dialed) = MaxIteration
    /\ LastReturned.conn = 0 /\ LastReturned.err = "reset" /\ dialed[1] = "timeout"

\* C22: the message passed on differs from the caller's only by the
\* defaults. ReplyTo: kept when not empty, else the effective name of the
\* reply queue when one is configured, else the WithReplyTo string.
\* Timestamp: set only when zero and timestamping is on. Expiration: set
\* only when empty and the TTL is positive. AppId: overwritten exactly when a
\* non-empty application id is configured.
C22_OnlyDefaults ==
    fwdDone =>
        /\ msg.ReplyTo # "" => fwd.ReplyTo = msg.ReplyTo
        /\ (msg.ReplyTo = "" /\ opts.hasReplyQueue) =>
               fwd.ReplyTo = (IF opts.replyToQueue.queue # ""
                              THEN opts.replyToQueue.queue ELSE opts.replyToQueue.Name)
        /\ (msg.ReplyTo = "" /\ ~opts.hasReplyQueue) => fwd.ReplyTo = opts.replyTo
        /\ fwd.Timestamp # msg.Timestamp <=> (msg.Timestamp = 0 /\ opts.timestamp)
        /\ fwd.Timestamp # msg.Timestamp => fwd.Timestamp = Now
        /\ fwd.Expiration # msg.Expiration <=> (msg.Expiration = "" /\ opts.ttl > 0)
        /\ fwd.Expiration # msg.Expiration => fwd.Expiration = "12"
        /\ opts.appID # "" => fwd.AppId = opts.appID
        /\ opts.appID = "" => fwd.AppId = msg.AppId

C22_Witness ==
    /\ fwdDone
    /\ msg = ZeroMsg
    /\ opts.hasReplyQueue /\ opts.replyToQueue.queue = "amq.gen-1" /\ opts.replyTo = "replies"
    /\ opts.timestamp /\ opts.ttl = 2 /\ opts.appID = "svc"
    /\ fwd = [ReplyTo |-> "amq.gen-1", Timestamp |-> Now, Expiration |-> "12", AppId |-> "svc"]

\* C23: every initializer invocation receives a channel of its own: no
\* channel is passed to two invocations, in one generation or across
\* generations, and the channel passed is the one opened for that task in
\* that generation.
C23_FreshChannels ==
    /\ \A a, b \in chPassed : a.ch = b.ch => a = b
    /\ \A a \in chPassed : a.ch > 0 /\ a.gen <= chGen
    /\ \A i \in 1..NWorkers :
          chTask[i] = "done" => [gen |-> chGen, task |-> i, ch |-> chLocal[i]] \in chPassed
    /\ \A i \in 1..NWorkers :
          chTask[i] = "chan" => \A a \in chPassed : a.ch # chLocal[i]

C23_Witness ==
    /\ rev = "grp"
    /\ chGen = MaxGen
    /\ \A g \in 1..MaxGen : \A i \in 1..NWorkers :
          \E a \in chPassed : a.gen = g /\ a.task = i
    /\ Cardinality({a.ch : a \in chPassed}) = MaxGen * NWorkers

\* C24: the consumer initializer returns nil with the delivery loop of its
\* generation just started, still running and its stream not ended; when it
\* returns an error (or never ran) no delivery loop of the generation exists.
C24_ReturnsAtOnce ==
    /\ [][(inv[ConsIdx] # "ok" /\ inv'[ConsIdx] = "ok") =>
             (loop[gen] = "none" /\ loop'[gen] = "running" /\ gen' = gen)]_vars
    /\ [][(inv[ConsIdx] # "err" /\ inv'[ConsIdx] = "err") => loop' = loop]_vars
    /\ [](\A g \in Gens : (g = gen /\ inv[ConsIdx] = "err") => loop[g] = "none")

C24_Witness ==
    /\ inv[ConsIdx] = "ok"
    /\ loop[gen] = "running"
    /\ conn[gen] = "open"
    /\ ~subClosed
    /\ gen = 2
    /\ errGen = 1

\* The first n elements of a sequence.
Prefix(sq, n) == SubSeq(sq, 1, n)

\* C25: the handler calls are, in order, the deliveries of the stream, one
\* call per delivery: what was handled is a prefix of what was delivered, the
\* rest is in hand or still in the stream; when the loop has left, the stream
\* has ended, every delivery was handled once and the handler is not called
\* again.
C25_OncePerDelivery ==
    /\ [](/\ Len(handled) <= Len(delivered)
          /\ handled = Prefix(delivered, Len(handled))
          /\ dlPc = "handler" =>
                (Len(handled) < Len(delivered) /\ dlMsg = delivered[Len(handled) + 1])
          /\ Len(handled) + Len(strm) + (IF dlPc = "handler" THEN 1 ELSE 0) = Len(delivered)
          /\ dlPc = "exited" => (strmClosed /\ handled = delivered))
    /\ [][dlPc = "exited" => (handled' = handled /\ dlPc' = "exited")]_vars

C25_Witness ==
    /\ dlPc = "exited"
    /\ strmClosed
    /\ delivered = <<"a", "b", "a">>
    /\ handled = delivered

\* The consumer initializer of a generation after the first is being run by
\* Run (its channel is open, it has not returned): declare assigns q.queue.
DeclareWriting ==
    /\ gen >= 2
    /\ conn[gen] = "open"
    /\ inv[ConsIdx] \in {"chan", "spawned"}

\* A publish call made now finds the slot filled and, for a message without
\* ReplyTo, evaluates replyToQueue.String(): it reads q.queue.
PublishReading == storedPublishingFunc # 0 /\ ENABLED Publisher

\* C26: no reachable state has the declaration of a new generation writing
\* the effective name of the queue while a publish call can read it, the two
\* accesses being ordered by no lock, channel or atomic operation.
C26_NoNameRace == ~(DeclareWriting /\ PublishReading)

\* C27: a Send that holds the lock while no channel is stored returns an
\* error and publishes nothing, Run being unable to store one meanwhile; a
\* Send that publishes a message whose ReplyTo was empty uses the channel and
\* the queue name of the same Run invocation.
C27_SendConsistent ==
    /\ [][(srSendPc \in {"reply", "check"} /\ srCh = 0) =>
             (srCh' = 0 /\ (srSendPc' = "idle" => srOut' = [res |-> "err", ch |-> 0, replyTo |-> 0]))]_vars
    /\ [](srOut.res = "sent" => srOut.ch >= 1)
    /\ []((srOut.res = "sent" /\ srOut.replyTo # CallerReplyTo) => srOut.replyTo = srOut.ch)

C27_Witness ==
    /\ srOut = [res |-> "sent", ch |-> 2, replyTo |-> 2]
    /\ srRunK = 2
    /\ srRunPc = "loop"
    /\ srSendPc = "idle"

\* C28: when the publisher initializer returns an error (the WithInit hook
\* failed) the slot is what it was; the slot changes only in a step in which
\* the publisher initializer returns nil, and then holds the closure of the
\* current generation.
C28_HookErrorKeepsSlot ==
    /\ [][(inv[PubIdx] # "err" /\ inv'[PubIdx] = "err") =>
             storedPublishingFunc' = storedPublishingFunc]_vars
    /\ [][storedPublishingFunc' # storedPublishingFunc =>
             (/\ inv[PubIdx] # "ok" /\ inv'[PubIdx] = "ok"
              /\ storedPublishingFunc' = gen /\ gen' = gen)]_vars

C28_Witness ==
    /\ rev = "seq"
    /\ gen = 2
    /\ inv[PubIdx] = "err"
    /\ storedPublishingFunc = 1

\* C29: in run.go, once the context is cancelled while Run waits for the
\* group with the consumer worker ranging over its deliveries, Run eventually
\* closes the connection and returns nil (unless the process has panicked).
C29_CancelStopsOldRun ==
    (ctxDone /\ runPc = "waitgrp" /\ inv[ConsIdx] = "running")
      ~> ((RunReturned /\ runRes = "nil" /\ conn[gen] = "closed") \/ runPc = "panic")

\* C30: in Init of run.go no close(stop) is executed on the channel already
\* closed: neither the deferred close after the sentinel has closed it, nor
\* the sentinel of a later generation.
C30_StopClosedOnce == rev = "old" => runPc # "panic"

\* C31: the publish function of PublishWorker, called while no channel
\* publisher is stored, returns ErrNoChannel.
C31_OldEarlyPublish ==
    (rev = "old" /\ pub # NoPub /\ pub.ch = 0) => pub.res = "ErrNoChannel"

\* C32: once the context is cancelled, an initializer of the current
\* generation that has not been started is not invoked in that generation.
C32_NoInvokeAfterCancel ==
    \A g \in Gens : \A i \in 1..NWorkers :
        []((ctxDone /\ gen = g /\ runPc \in {"init", "spawn"} /\ inv[i] = "no")
              => [](gen = g => inv[i] # "ok"))

\* C33: in the sequential revision an initializer is started only when all
\* those registered before it have returned nil in this generation, one at a
\* time; once the loop is left (after a failure or after the last one) no
\* initializer of the generation is started; the sentinel, registered last,
\* is started only when every user initializer has returned nil.
C33_State ==
    rev = "seq" =>
        /\ \A i \in 1..NWorkers : inv[i] # "no" => \A j \in 1..(i - 1) : inv[j] = "ok"
        /\ \A i \in 1..NWorkers : inv[i] = "err" => \A j \in (i + 1)..NWorkers : inv[j] = "no"
        /\ Cardinality({i \in 1..NWorkers : inv[i] = "chan"}) <= 1
        /\ inv[NWorkers] # "no" => \A i \in Registered : inv[i] = "ok"
        /\ runPc = "init" => (inv[idx] \in {"no", "chan"} /\ err = "nil")

C33_InOrder ==
    /\ []C33_State
    /\ [][(rev = "seq" /\ gen' = gen /\ runPc # "init") => inv' = inv]_vars

C33_Witness ==
    /\ rev = "seq"
    /\ gen = 2
    /\ runPc = "check"
    /\ inv = <<"ok", "err", "no">>
    /\ stop = 0

\* C34: if Init has returned nil, every registered initializer has returned
\* nil at least once (okOnce only grows, so a state after the return in which
\* it is not full shows it was not full at the return).
C34_NilMeansInitialized ==
    (initPc = "returned" /\ initRes = "nil") => okOnce = Registered

\* C35: the slot, once stored, is never emptied, whatever happens to the
\* connection and to later invocations of the initializer; it is not empty
\* exactly when the publisher initializer has returned nil at least once, and
\* a publish call yields ErrNoChannel only before that.
C35_SlotNeverEmptied ==
    /\ [][storedPublishingFunc # 0 => storedPublishingFunc' # 0]_vars
    /\ [](storedPublishingFunc # 0 <=> PubIdx \in okOnce)
    /\ [][(pub' # pub /\ pub'.res = "ErrNoChannel") => PubIdx \notin okOnce]_vars
    /\ [][(pub' # pub /\ PubIdx \in okOnce) => pub'.res = "sent"]_vars

C35_Witness ==
    /\ gen = 2
    /\ conn[1] = "closed"
    /\ inv[PubIdx] = "err"
    /\ storedPublishingFunc = 1
    /\ pub.res = "sent" /\ pub.stale

\* C36: the delivery loops of two generations never exist together: the
\* loop of a generation has returned (and with it its last handler call)
\* before the loop of a later generation is started and can call the handler.
C36_OneLoopAtATime ==
    \A g1, g2 \in Gens : (loop[g1] = "running" /\ loop[g2] = "running") => g1 = g2

\* Run has closed every connection but the one of the current generation.
EarlierClosed == \A g \in Gens : g < gen => conn[g] = "closed"

\* C37: Run has closed the connection of a generation before it calls Connect
\* again and before it returns, so at most one connection of a Run call is
\* not closed at any time; and no initializer is invoked in a generation
\* whose connection Run has already closed.
C37_ClosedBeforeNext ==
    /\ [](/\ EarlierClosed
          /\ \A g \in Gens : g > gen => conn[g] = "none"
          /\ RunReturned => \A g \in Gens : conn[g] \in {"none", "closed"})
    /\ [][\A i \in 1..NWorkers :
             (gen' = gen /\ inv[i] \in {"chan", "spawned"} /\ inv'[i] \notin {"chan", "spawned"})
                => conn[gen] # "closed"]_vars

\* C38: Run returns nil only with the context cancelled; with a live context
\* it returns only out of Connect, all of whose dials failed, with the error
\* of Connect: never after an initializer error, a channel error or a close
\* notification.
C38_ReturnCauses ==
    /\ [][(runPc # "ret" /\ runPc' = "ret") =>
             /\ runRes' \in {"nil", "connErr"}
             /\ runRes' = "nil" => (ctxDone /\ runPc = "check")
             /\ runRes' = "connErr" => (runPc = "dial" /\ dialI >= MaxIteration)
             /\ ~ctxDone => runRes' = "connErr"]_vars
    /\ []((RunReturned /\ runRes = "nil") => ctxDone)

C38_Witness ==
    /\ runPc = "ret"
    /\ runRes = "connErr"
    /\ ~ctxDone
    /\ gen = 2
    /\ errGen = 1
    /\ err = "initErr"

\* C39: whatever MaxIteration is set to, Connect returns a connection with
\* a nil error or no connection with a non-nil error, so that Run, which
\* tests only the error, never goes on with a nil connection.
C39_ConnOrError ==
    \A k \in 1..Len(returned) :
        \/ returned[k].conn # 0 /\ returned[k].err = "nil"
        \/ returned[k].conn = 0 /\ returned[k].err # "nil"

\* C40: after a failed declaration the stored name is empty and String()
\* gives the requested Name; the declaration that follows a failed one asks
\* for the requested Name, not for a name generated earlier.
C40_FailureClearsName ==
    \A n \in 1..Len(replied) :
        replied[n] = "" =>
            /\ n = Len(replied) => (q.queue = "" /\ String(q) = q.Name)
            /\ n < Len(asked) => asked[n + 1] = q.Name

C40_Witness ==
    /\ q.Name = ""
    /\ Len(replied) = 3
    /\ replied[1] = "amq.gen-1"
    /\ asked[2] = "amq.gen-1"
    /\ replied[2] = ""
    /\ asked[3] = ""
    /\ replied[3] = "amq.gen-3"
    /\ String(q) = "amq.gen-3"

====
